---- MODULE Spec2Model ----
(***************************************************************************)
(* Model of the OAuth 2.0 authorization server of strapi-oauth-mcp-manager *)
(* (controller: authorize / token, service: validateToken,                 *)
(* revokeClientTokens, cleanupExpired, middleware: mcpOauthMiddleware).    *)
(*                                                                         *)
(* Every `await strapi.documents(...)` of a handler is one atomic step on  *)
(* the shared store; the synchronous code that follows it (up to the next  *)
(* store call) runs in the same step.  Handlers of different requests      *)
(* interleave at these steps.                                              *)
(*                                                                         *)
(* Time is counted in seconds.  Values produced by randomBytes(32) are     *)
(* modelled as fresh positive integers (no collision); 0 is an absent      *)
(* (undefined / empty) parameter and "" / << >> an absent string.          *)
(***************************************************************************)
EXTENDS Integers, Sequences, FiniteSets, TLC

(* ------------------------------ bounds -------------------------------- *)
MaxCodes  == 1      \* authorization codes ever issued
MaxTokens == 2      \* token records ever created by requests one at a time
MaxTicks  == 1      \* clock advances
MaxLen    == 2      \* characters of a pattern or candidate given to matchRedirectUri
NumReqs   == 2      \* token requests in flight at the same time

(* ------------------------- program constants -------------------------- *)
CODE_TTL       == 10 * 60            \* 10 minutes
expiresIn      == 3600               \* 1 hour
refreshExpiresIn == 30 * 24 * 3600   \* 30 days

(* ----------------------------- strings -------------------------------- *)
\* A string is a sequence of one-character strings.
Letters     == {"a", "b", "x"}
SchemeChars == Letters \cup {"+", "-", "."}

U_xa  == <<"x", ":", "a">>
U_xb  == <<"x", ":", "b">>
U_xsa == <<"x", ":", "/", "a">>
U_ab  == <<"a", "b">>
P_xw  == <<"x", ":", "*">>
P_aw  == <<"a", "*">>

\* redirect_uri values a request may carry (<< >> is an absent parameter)
RedirectInputs == {<< >>, U_xa, U_xb, U_xsa, U_ab}
\* redirect_uri values of the token requests
TokenRedirectInputs == {<< >>, U_xa, U_xb}

(* ----------------------------- clients -------------------------------- *)
\* mcp-oauth-client records as created by the administrator.  redirectUris
\* is stored either as a native array, as a JSON-encoded string of an array,
\* or as a plain string.
\*
\* A secret is written as the list of its pieces between colons, which is
\* what split(':') makes of it: <<"sA">> is the secret sA, <<"s", "C">> the
\* secret s:C and << >> no secret.  Client identifiers hold no colon.
ClientIds == {"A", "B", "C"}

ClientRecord(c) ==
  IF c = "A"
    THEN [clientId |-> "A", clientSecret |-> <<"sA">>, strapiApiToken |-> <<"k", "A">>,
          redirectUris |-> [kind |-> "array", value |-> <<P_xw, P_aw>>]]
  ELSE IF c = "C"
    THEN [clientId |-> "C", clientSecret |-> <<"s", "C">>,
          strapiApiToken |-> <<"k", "C">>,
          redirectUris |-> [kind |-> "json", value |-> <<U_xa>>]]
    ELSE [clientId |-> "B", clientSecret |-> << >>, strapiApiToken |-> <<"k", "B">>,
          redirectUris |-> [kind |-> "plain", value |-> U_xb]]

\* client_id values a request may carry ("" absent, "Z" unregistered)
ClientIdInputs == {"", "A", "B", "C", "Z"}
SecretInputs   == {<< >>, <<"sA">>, <<"sB">>, <<"s", "C">>}

VARIABLES
  now,       \* Date.now(), seconds
  ticks,     \* number of clock advances so far
  active,    \* active flag of every mcp-oauth-client record
  codes,     \* mcp-oauth-code collection
  tokens,    \* mcp-oauth-token collection
  nextCode,  \* number of codes created so far (source of fresh values)
  nextTok,   \* number of token records created so far
  az,        \* the authorize request in flight
  treq,      \* the token requests in flight (or just answered)
  redeemed,  \* history: code values a request was answered a token pair for
  rotated,   \* history: refresh token values answered a new pair for
  vres,      \* the last call of the service's validateToken and its result
  gate,      \* the request passing through mcpOauthMiddleware
  sweep,     \* the call of cleanupExpired in progress
  rev,       \* the call of revokeClientTokens in progress
  endpoints, \* mcp-endpoint collection
  ereq,      \* the call of the endpoint service in progress
  mres       \* the last call of matchRedirectUri and its result

\* what the controller's handlers leave alone
svcVars == <<vres, gate, sweep, rev, endpoints, ereq, mres>>

\* what the token lifecycle and its services leave alone
regVars == <<endpoints, ereq, mres>>

vars == <<now, ticks, active, codes, tokens, nextCode, nextTok, az, treq,
          redeemed, rotated, vres, gate, sweep, rev, endpoints, ereq, mres>>

Reqs == 1 .. NumReqs

(* ------------------------ matchRedirectUri ---------------------------- *)
\* pattern.replace(/[.+?^${}()|[\]\\]/g, '\\$&'): the characters the first
\* replace puts a backslash before, which makes them literal in the regular
\* expression.
Escaped_noDot ==
  {"+", "?", "^", "$", "{", "}", "(", ")", "|", "[", "]", "\\"}
Escaped ==
  {".", "+", "?", "^", "$", "{", "}", "(", ")", "|", "[", "]", "\\"}

\* what an unescaped . does not match
LineTerminators == {"\n", "\r"}

\* new RegExp('^' + regexPattern + '$').test(s), regexPattern being the
\* pattern after the two replaces: * has become [^/]*, an escaped character is
\* literal, and so is every character that is no metacharacter; a . left
\* unescaped would match any character but a line terminator.
\* GlobFrom(p, i, s, j): does p[i..] match s[j..] in full.
RECURSIVE GlobFrom_slash(_, _, _, _)
GlobFrom_slash(p, i, s, j) ==
  IF i > Len(p) THEN j > Len(s)
  ELSE IF p[i] = "*"
    THEN \/ GlobFrom_slash(p, i + 1, s, j)
         \/ /\ j <= Len(s)
            /\ GlobFrom_slash(p, i, s, j + 1)
    ELSE /\ j <= Len(s)
         /\ s[j] = p[i]
         /\ GlobFrom_slash(p, i + 1, s, j + 1)
RECURSIVE GlobFrom(_, _, _, _)
GlobFrom(p, i, s, j) ==
  IF i > Len(p) THEN j > Len(s)
  ELSE IF p[i] = "*"
    THEN \/ GlobFrom(p, i + 1, s, j)
         \/ /\ j <= Len(s)
            /\ s[j] # "/"
            /\ GlobFrom(p, i, s, j + 1)
  ELSE IF p[i] = "." /\ p[i] \notin Escaped
    THEN /\ j <= Len(s)
         /\ s[j] \notin LineTerminators
         /\ GlobFrom(p, i + 1, s, j + 1)
    ELSE /\ j <= Len(s)
         /\ s[j] = p[i]
         /\ GlobFrom(p, i + 1, s, j + 1)

\* allowedPatterns.some(...)
matchRedirectUri_every(redirectUri, allowedPatterns) ==
  \A k \in 1 .. Len(allowedPatterns) :
     GlobFrom(allowedPatterns[k], 1, redirectUri, 1)
matchRedirectUri(redirectUri, allowedPatterns) ==
  \E k \in 1 .. Len(allowedPatterns) :
     GlobFrom(allowedPatterns[k], 1, redirectUri, 1)

\* allowedRedirects as computed by authorize from client.redirectUris: the
\* array itself (kind "array"), the array a JSON string parses to (kind
\* "json", value being the parsed array), or the one-element list of a string
\* that is not JSON (kind "plain").
allowedRedirects(client) ==
  IF client.redirectUris.kind = "plain"
    THEN <<client.redirectUris.value>>
    ELSE client.redirectUris.value

\* new URL(s) succeeds only for an absolute URL: a scheme (a letter followed
\* by scheme characters) and a colon.
IsValidUrl(s) ==
  \E k \in 2 .. Len(s) :
     /\ s[k] = ":"
     /\ s[1] \in Letters
     /\ \A m \in 2 .. (k - 1) : s[m] \in SchemeChars

(* --------------------------- store queries ---------------------------- *)
\* findFirst({ clientId, active: true }) on mcp-oauth-client
ActiveClientFound_anyFlag(cid) == cid \in ClientIds
ActiveClientFound(cid) == cid \in ClientIds /\ active[cid]

\* findFirst({ code, clientId, used: false }) on mcp-oauth-code
FindUnusedCode_anyUse(code, cid) ==
  {r \in codes : r.code = code /\ r.clientId = cid}
FindUnusedCode_anyClient(code, cid) ==
  {r \in codes : r.code = code /\ r.used = FALSE}
FindUnusedCode(code, cid) ==
  {r \in codes : r.code = code /\ r.clientId = cid /\ r.used = FALSE}

\* findFirst({ refreshToken, clientId, revoked: false }) on mcp-oauth-token
FindLiveRefresh_anyState(rt, cid) ==
  {r \in tokens : r.refreshToken = rt /\ r.clientId = cid}
FindLiveRefresh(rt, cid) ==
  {r \in tokens : r.refreshToken = rt /\ r.clientId = cid /\ r.revoked = FALSE}

\* new Date(authCode.expiresAt) < new Date()
CodeExpired_reversed(r) == now < r.expiresAt
CodeExpired(r) == r.expiresAt < now
\* authCode.redirectUri !== redirect_uri
RedirectMismatch_ifGiven(authCode, redirect_uri) ==
  redirect_uri # << >> /\ authCode.redirectUri # redirect_uri
RedirectMismatch(authCode, redirect_uri) ==
  authCode.redirectUri # redirect_uri
\* new Date(token.refreshExpiresAt) < new Date()
RefreshExpired(r) == r.refreshExpiresAt < now

(* ------------------------------- Init --------------------------------- *)
NoLocation == [uri |-> << >>, code |-> 0, state |-> ""]

\* An authorize request: its position, the query parameters it carried, its
\* response (location: the URL of the redirect, as the URI and the query
\* parameters set on it; state "": no state parameter).
IdleAz == [pc |-> "idle", client_id |-> "", redirect_uri |-> << >>,
           response_type |-> "", state |-> "", status |-> 0, error |-> "",
           code |-> 0, location |-> NoLocation]

\* A token request: its position, the parameters it carried (client_id and
\* client_secret are those of the body, basic those of the header), the
\* client it was authenticated as (noSecret: no secret was found in it), the
\* document it found, its response (issued is the token record it created) and
\* the history flag late (see IsLate).
IdleReq == [pc |-> "idle", grant_type |-> "", client |-> "", noSecret |-> FALSE,
            client_id |-> "", client_secret |-> << >>, basic |-> << >>,
            code |-> 0, redirect_uri |-> << >>, refresh_token |-> 0,
            doc |-> 0, cycle |-> 0, status |-> 0, error |-> "", issued |-> 0,
            late |-> FALSE]

NoCall == [token |-> 0, valid |-> FALSE, strapiApiToken |-> << >>,
           clientId |-> "", error |-> ""]

\* A request at the middleware: what it carried, and what the middleware
\* set on ctx (status 0: not set; next: whether next() was called).
IdleGate == [pc |-> "idle", path |-> << >>, authorization |-> << >>,
             token |-> << >>, wwwAuthenticate |-> << >>, status |-> 0,
             strapiToken |-> << >>, authMethod |-> "", next |-> FALSE]

\* A call of cleanupExpired: the captured time, the documents found and
\* not yet deleted, the counts it returns.  History fields: the numbers of
\* codes and token records created before the call began, and rerun: the call
\* began right when the call before it returned, at the same clock value.
IdleSweep == [pc |-> "idle", now |-> 0, expiredCodes |-> {},
              expiredTokens |-> {}, result |-> [tokens |-> 0, codes |-> 0],
              code0 |-> 0, tok0 |-> 0, rerun |-> FALSE]

\* A call of revokeClientTokens: its argument, the documents found and not
\* yet updated, the count it returns.  History fields: the two collections as
\* they were when the call began.
IdleRev == [pc |-> "idle", clientId |-> "", found |-> {}, result |-> 0,
            tokens0 |-> {}, codes0 |-> {}]

\* A call of the endpoint service: register or unregister, its argument,
\* the document findFirst returned (0: none).
IdleEreq == [pc |-> "idle", op |-> "", path |-> << >>, pluginId |-> "",
             existing |-> 0]

NoMatch == [redirectUri |-> << >>, allowedPatterns |-> << >>,
            called |-> FALSE, result |-> FALSE]

\* The state after construction, but for mres.
InitStore ==
  /\ now = 0
  /\ ticks = 0
  /\ active = [c \in ClientIds |-> TRUE]
  /\ codes = {}
  /\ tokens = {}
  /\ nextCode = 0
  /\ nextTok = 0
  /\ az = IdleAz
  /\ treq = [p \in Reqs |-> IdleReq]
  /\ redeemed = {}
  /\ rotated = {}
  /\ vres = NoCall
  /\ gate = IdleGate
  /\ sweep = IdleSweep
  /\ rev = IdleRev
  /\ endpoints = {}
  /\ ereq = IdleEreq

Init == InitStore /\ mres = NoMatch

(* ------------------------------ clock --------------------------------- *)
\* The clock advances by the lifetime of a code, or by just more than the
\* lifetime of an access token or of a refresh token.
TickSteps == {CODE_TTL, expiresIn + 1, refreshExpiresIn + 1}

Tick ==
  /\ ticks < MaxTicks
  /\ \E d \in TickSteps : now' = now + d
  /\ ticks' = ticks + 1
  /\ UNCHANGED <<active, codes, tokens, nextCode, nextTok, az, treq, redeemed, rotated,
                 svcVars>>

(* ------------------------- administration ----------------------------- *)
\* The administrator sets the active flag of a client record in the Content
\* Manager.
SetActive(c, flag) ==
  /\ active[c] # flag
  /\ active' = [active EXCEPT ![c] = flag]
  /\ UNCHANGED <<now, ticks, codes, tokens, nextCode, nextTok, az, treq,
                 redeemed, rotated, svcVars>>

(* ---------------------------- authorize ------------------------------- *)
\* A call of matchRedirectUri on the arguments held in mres.
matchRedirectUriCall ==
  /\ ~mres.called
  /\ mres' = [mres EXCEPT !.called = TRUE,
                          !.result = matchRedirectUri(mres.redirectUri,
                                                      mres.allowedPatterns)]
  /\ UNCHANGED <<now, ticks, active, codes, tokens, nextCode, nextTok, az,
                 treq, redeemed, rotated, vres, gate, sweep, rev, endpoints,
                 ereq>>

AzFail(r, st, err) == [r EXCEPT !.pc = "done", !.status = st, !.error = err]

\* GET /oauth/authorize up to and including the client lookup and the
\* redirect_uri check.
authorize(client_id, redirect_uri, response_type, state) ==
  /\ az.pc = "idle"
  /\ LET r == [IdleAz EXCEPT !.client_id = client_id,
                             !.redirect_uri = redirect_uri,
                             !.response_type = response_type,
                             !.state = state]
     IN az' =
        IF client_id = "" THEN AzFail(r, 400, "invalid_request")
        ELSE IF redirect_uri = << >> THEN AzFail(r, 400, "invalid_request")
        ELSE IF response_type # "code"
          THEN AzFail(r, 400, "unsupported_response_type")
        ELSE IF ~ActiveClientFound(client_id)
          THEN AzFail(r, 400, "invalid_client")
        ELSE IF ~matchRedirectUri(redirect_uri,
                                  allowedRedirects(ClientRecord(client_id)))
          THEN AzFail(r, 400, "invalid_request")
        ELSE [r EXCEPT !.pc = "create"]
  /\ UNCHANGED <<now, ticks, active, codes, tokens, nextCode, nextTok, treq, redeemed, rotated,
                 svcVars>>

\* The record authorize stores: a fresh code value, the request's client_id
\* and redirect_uri, expiry ten minutes from now (the clock read and the
\* create are one step), used false.
NewCode_used(id, client_id, redirect_uri) ==
  [documentId |-> id, code |-> id, clientId |-> client_id,
   redirectUri |-> redirect_uri, expiresAt |-> now + CODE_TTL, used |-> TRUE]
NewCode(id, client_id, redirect_uri) ==
  [documentId |-> id, code |-> id, clientId |-> client_id,
   redirectUri |-> redirect_uri, expiresAt |-> now + CODE_TTL, used |-> FALSE]

\* new URL(redirect_uri) with searchParams code and, when state is truthy,
\* state.
redirectUrl_noState(redirect_uri, code, state) ==
  [uri |-> redirect_uri, code |-> code, state |-> ""]
redirectUrl(redirect_uri, code, state) ==
  [uri |-> redirect_uri, code |-> code, state |-> state]

\* create() of the mcp-oauth-code record, then the redirect; new URL()
\* throws on a redirect_uri that is not an absolute URL (status 500).
authorizeCreate ==
  /\ az.pc = "create"
  /\ nextCode < MaxCodes
  /\ nextCode' = nextCode + 1
  /\ codes' = codes \cup {NewCode(nextCode + 1, az.client_id, az.redirect_uri)}
  /\ az' = IF IsValidUrl(az.redirect_uri)
             THEN [az EXCEPT !.pc = "done", !.status = 302,
                             !.code = nextCode + 1,
                             !.location = redirectUrl(az.redirect_uri,
                                                      nextCode + 1, az.state)]
             ELSE [az EXCEPT !.pc = "done", !.status = 500,
                             !.error = "TypeError"]
  /\ UNCHANGED <<now, ticks, active, tokens, nextTok, treq, redeemed, rotated,
                 svcVars>>

\* The response has been sent: the request is over.
authorizeEnd ==
  /\ az.pc = "done"
  /\ az' = IdleAz
  /\ UNCHANGED <<now, ticks, active, codes, tokens, nextCode, nextTok, treq,
                 redeemed, rotated, svcVars>>

(* ------------------------------ token --------------------------------- *)
Fail(r, st, err) == [r EXCEPT !.pc = "done", !.status = st, !.error = err]

\* Credentials of a token request: the body fields, completed from an
\* `Authorization: Basic base64(id:secret)` header when one is present.
\* basic is the decoded text of the header as the list of its pieces between
\* colons (credentials.split(':')), or << >> when there is no such header;
\* `const [id, secret]` takes the first two pieces.
authClientId(client_id, basic) ==
  IF basic # << >> /\ client_id = "" THEN basic[1] ELSE client_id
authClientSecret(client_secret, basic) ==
  IF basic # << >> /\ client_secret = << >>
    THEN IF Len(basic) >= 2 /\ basic[2] # "" THEN <<basic[2]>> ELSE << >>
    ELSE client_secret

\* <<client_id, client_secret, basic>> of the token requests
CredInputs ==
  { <<"", << >>, << >> >>,               \* no credentials at all
    <<"A", <<"sA">>, << >> >>,           \* body, right secret
    <<"A", <<"sB">>, << >> >>,           \* body, wrong secret
    <<"A", << >>, << >> >>,              \* body, no secret
    <<"B", << >>, << >> >>,              \* public client
    <<"Z", << >>, << >> >>,              \* unregistered client
    <<"", << >>, <<"A", "sA">> >>,       \* Basic A:sA
    <<"", << >>, <<"A">> >>,             \* Basic A
    <<"B", << >>, <<"A", "sA">> >>,      \* body id, secret from the header
    <<"C", <<"s", "C">>, << >> >>,       \* body, right secret s:C
    <<"", << >>, <<"C", "s", "C">> >> }  \* Basic C:s:C

\* if (!client || (authClientSecret && client.clientSecret !== authClientSecret))
ClientRejected(cid, secret) ==
  \/ ~ActiveClientFound(cid)
  \/ (secret # << >> /\ ClientRecord(cid).clientSecret # secret)

\* The request presents a code or refresh token that an earlier request has
\* already been answered a token pair for.
IsLate(grant_type, code, refresh_token) ==
  \/ grant_type = "authorization_code" /\ code \in redeemed
  \/ grant_type = "refresh_token" /\ refresh_token \in rotated

\* POST /oauth/token up to the first store call of the grant handler:
\* credential extraction, client lookup, dispatch on grant_type and the
\* required-parameter check of the grant handler.  A request takes the
\* lowest free slot.
token(p, grant_type, code, redirect_uri, client_id, client_secret, refresh_token, basic) ==
  /\ treq[p].pc = "idle"
  /\ \A q \in Reqs : q < p => treq[q].pc # "idle"
  /\ LET cid == authClientId(client_id, basic)
         sec == authClientSecret(client_secret, basic)
         r == [IdleReq EXCEPT !.grant_type = grant_type,
                              !.client_id = client_id,
                              !.client_secret = client_secret,
                              !.basic = basic,
                              !.code = code,
                              !.redirect_uri = redirect_uri,
                              !.refresh_token = refresh_token,
                              !.noSecret = (sec = << >>),
                              !.late = IsLate(grant_type, code, refresh_token)]
     IN treq' = [treq EXCEPT ![p] =
        IF cid = "" THEN Fail(r, 401, "invalid_client")
        ELSE IF ClientRejected(cid, sec) THEN Fail(r, 401, "invalid_client")
        ELSE LET a == [r EXCEPT !.client = cid]
             IN IF grant_type = "authorization_code"
                  THEN IF code = 0 THEN Fail(a, 400, "invalid_request")
                       ELSE [a EXCEPT !.pc = "findCode"]
                ELSE IF grant_type = "refresh_token"
                  THEN IF refresh_token = 0
                         THEN Fail(a, 400, "invalid_request")
                         ELSE [a EXCEPT !.pc = "findToken"]
                ELSE Fail(a, 400, "unsupported_grant_type")]
  /\ UNCHANGED <<now, ticks, active, codes, tokens, nextCode, nextTok, az,
                 redeemed, rotated,
                 svcVars>>

\* The response has been sent: the request is over.
tokenEnd(p) ==
  /\ treq[p].pc = "done"
  /\ treq' = [treq EXCEPT ![p] = IdleReq]
  /\ UNCHANGED <<now, ticks, active, codes, tokens, nextCode, nextTok, az,
                 redeemed, rotated, svcVars>>

(* -------------------- handleAuthorizationCodeGrant -------------------- *)
\* findFirst of the code, expiry check, redirect_uri check
acFindCode(p) ==
  /\ treq[p].pc = "findCode"
  /\ LET r == treq[p]
         found == FindUnusedCode(r.code, r.client)
     IN treq' = [treq EXCEPT ![p] =
        IF found = {} THEN Fail(r, 400, "invalid_grant")
        ELSE LET authCode == CHOOSE c \in found : TRUE
             IN IF CodeExpired(authCode) THEN Fail(r, 400, "invalid_grant")
                ELSE IF RedirectMismatch(authCode, r.redirect_uri)
                  THEN Fail(r, 400, "invalid_grant")
                ELSE [r EXCEPT !.pc = "markUsed",
                               !.doc = authCode.documentId]]
  /\ UNCHANGED <<now, ticks, active, codes, tokens, nextCode, nextTok, az,
                 redeemed, rotated,
                 svcVars>>

\* update({ documentId, data: { used: true } }); a document deleted in the
\* meantime stays absent.
acMarkUsed(p) ==
  /\ treq[p].pc = "markUsed"
  /\ codes' = {IF c.documentId = treq[p].doc THEN [c EXCEPT !.used = TRUE]
                                              ELSE c : c \in codes}
  /\ treq' = [treq EXCEPT ![p].pc = "createToken"]
  /\ UNCHANGED <<now, ticks, active, tokens, nextCode, nextTok, az,
                 redeemed, rotated,
                 svcVars>>

\* The token record of a new pair.  cycle is a history field: the record
\* created by the code redemption this record descends from.
NewToken_swapped(id, cid, cycle) ==
  [documentId |-> id, accessToken |-> id, refreshToken |-> id,
   clientId |-> cid,
   expiresAt |-> now + refreshExpiresIn,
   refreshExpiresAt |-> now + expiresIn,
   revoked |-> FALSE, cycle |-> cycle]
NewToken(id, cid, cycle) ==
  [documentId |-> id, accessToken |-> id, refreshToken |-> id,
   clientId |-> cid,
   expiresAt |-> now + expiresIn,
   refreshExpiresAt |-> now + refreshExpiresIn,
   revoked |-> FALSE, cycle |-> cycle]

\* create() of the token record and the response
acCreateToken(p) ==
  /\ treq[p].pc = "createToken"
  /\ nextTok' = nextTok + 1
  /\ tokens' = tokens \cup {NewToken(nextTok + 1, treq[p].client, nextTok + 1)}
  /\ treq' = [treq EXCEPT ![p].pc = "done", ![p].status = 200,
                          ![p].issued = nextTok + 1]
  /\ redeemed' = redeemed \cup {treq[p].code}
  /\ UNCHANGED <<now, ticks, active, codes, nextCode, az, rotated,
                 svcVars>>

(* ---------------------- handleRefreshTokenGrant ----------------------- *)
\* findFirst of the token record, refresh expiry check
rtFindToken(p) ==
  /\ treq[p].pc = "findToken"
  /\ LET r == treq[p]
         found == FindLiveRefresh(r.refresh_token, r.client)
     IN treq' = [treq EXCEPT ![p] =
        IF found = {} THEN Fail(r, 400, "invalid_grant")
        ELSE LET t == CHOOSE c \in found : TRUE
             IN IF RefreshExpired(t) THEN Fail(r, 400, "invalid_grant")
                ELSE [r EXCEPT !.pc = "revoke", !.doc = t.documentId,
                               !.cycle = t.cycle]]
  /\ UNCHANGED <<now, ticks, active, codes, tokens, nextCode, nextTok, az,
                 redeemed, rotated,
                 svcVars>>

\* update({ documentId, data: { revoked: true } })
rtRevoke(p) ==
  /\ treq[p].pc = "revoke"
  /\ tokens' = {IF t.documentId = treq[p].doc THEN [t EXCEPT !.revoked = TRUE]
                                               ELSE t : t \in tokens}
  /\ treq' = [treq EXCEPT ![p].pc = "createNew"]
  /\ UNCHANGED <<now, ticks, active, codes, nextCode, nextTok, az,
                 redeemed, rotated,
                 svcVars>>

\* create() of the new token record and the response
rtCreateNew(p) ==
  /\ treq[p].pc = "createNew"
  /\ nextTok' = nextTok + 1
  /\ tokens' = tokens \cup {NewToken(nextTok + 1, treq[p].client, treq[p].cycle)}
  /\ treq' = [treq EXCEPT ![p].pc = "done", ![p].status = 200,
                          ![p].issued = nextTok + 1]
  /\ rotated' = rotated \cup {treq[p].refresh_token}
  /\ UNCHANGED <<now, ticks, active, codes, nextCode, az, redeemed,
                 svcVars>>

(* ------------------------- service: validateToken --------------------- *)
\* TokenValidationResult; "" and << >> are absent fields.
Invalid(err) == [valid |-> FALSE, strapiApiToken |-> << >>, clientId |-> "",
                 error |-> err]

\* findFirst({ accessToken, revoked: false }) on mcp-oauth-token
FindLiveAccess_anyState(accessToken) ==
  {r \in tokens : r.accessToken = accessToken}
FindLiveAccess(accessToken) ==
  {r \in tokens : r.accessToken = accessToken /\ r.revoked = FALSE}

\* findFirst({ clientId }) on mcp-oauth-client: the active flag is not part
\* of the filter
ClientFound_activeOnly(cid) == cid \in ClientIds /\ active[cid]
ClientFound(cid) == cid \in ClientIds

\* new Date(tokenRecord.expiresAt) < new Date()
AccessExpired_byRefresh(r) == r.refreshExpiresAt < now
AccessExpired(r) == r.expiresAt < now

\* The service's validateToken.  Its two store reads are taken together: the
\* second reads only the client record, which no handler writes.
validateToken(accessToken) ==
  LET found == FindLiveAccess(accessToken)
  IN IF found = {} THEN Invalid("")
     ELSE LET tokenRecord == CHOOSE r \in found : TRUE
          IN IF AccessExpired(tokenRecord) THEN Invalid("Token expired")
             ELSE IF ~ClientFound(tokenRecord.clientId)
               THEN Invalid("Client not found")
             ELSE LET client == ClientRecord(tokenRecord.clientId)
                  IN [valid |-> TRUE,
                      strapiApiToken |-> client.strapiApiToken,
                      clientId |-> client.clientId,
                      error |-> ""]

\* The middleware's validateOAuthToken: the same lookups, no clientId in the
\* result.
validateOAuthToken_noExpiry(token_) ==
  LET found == FindLiveAccess(token_)
  IN IF found = {} THEN Invalid("")
     ELSE LET tokenRecord == CHOOSE r \in found : TRUE
          IN IF ~ClientFound(tokenRecord.clientId)
               THEN Invalid("Client not found")
             ELSE [valid |-> TRUE,
                   strapiApiToken |->
                      ClientRecord(tokenRecord.clientId).strapiApiToken,
                   clientId |-> "",
                   error |-> ""]
validateOAuthToken(token_) ==
  LET found == FindLiveAccess(token_)
  IN IF found = {} THEN Invalid("")
     ELSE LET tokenRecord == CHOOSE r \in found : TRUE
          IN IF AccessExpired(tokenRecord) THEN Invalid("Token expired")
             ELSE IF ~ClientFound(tokenRecord.clientId)
               THEN Invalid("Client not found")
             ELSE [valid |-> TRUE,
                   strapiApiToken |->
                      ClientRecord(tokenRecord.clientId).strapiApiToken,
                   clientId |-> "",
                   error |-> ""]

\* A call of the service's validateToken by a plugin
validateTokenCall(accessToken) ==
  /\ vres' = [token |-> accessToken] @@ validateToken(accessToken)
  /\ UNCHANGED <<now, ticks, active, codes, tokens, nextCode, nextTok, az,
                 treq, redeemed, rotated, gate, sweep, rev,
                 regVars>>

\* The answer to a refresh_token request of client cid that runs from its
\* first step to its last with no other step in between: token() followed by
\* handleRefreshTokenGrant.
refreshOutcome(refresh_token, cid, secret) ==
  IF cid = "" \/ ClientRejected(cid, secret) THEN "invalid_client"
  ELSE IF refresh_token = 0 THEN "invalid_request"
  ELSE LET found == FindLiveRefresh(refresh_token, cid)
       IN IF found = {} THEN "invalid_grant"
          ELSE IF RefreshExpired(CHOOSE t \in found : TRUE)
            THEN "invalid_grant"
          ELSE "ok"

(* --------------------- service: cleanupExpired ------------------------ *)
\* The documents of a query are handled in the order of their identifiers.
First(ids) == CHOOSE x \in ids : \A y \in ids : x <= y

\* findMany({ expiresAt: { $lt: now } }) on mcp-oauth-code
ExpiredCodes(t0) == {r.documentId : r \in {c \in codes : c.expiresAt < t0}}

\* findMany({ refreshExpiresAt: { $lt: now } }) on mcp-oauth-token
ExpiredTokens_byAccess(t0) ==
  {r.documentId : r \in {c \in tokens : c.expiresAt < t0}}
ExpiredTokens_all(t0) == {r.documentId : r \in tokens}
ExpiredTokens(t0) ==
  {r.documentId : r \in {c \in tokens : c.refreshExpiresAt < t0}}

\* delete({ documentId }); a document that is no longer there stays absent
DeleteDoc_none(coll, id) == coll
DeleteDoc(coll, id) == {r \in coll : r.documentId # id}

\* The time is captured and the expired codes are queried.
cleanupExpired ==
  /\ sweep.pc \in {"idle", "done"}
  /\ LET found == ExpiredCodes(now)
     IN sweep' = [IdleSweep EXCEPT
                    !.pc = IF found # {} THEN "deleteCode" ELSE "findTokens",
                    !.now = now,
                    !.expiredCodes = found,
                    !.result = [tokens |-> 0, codes |-> Cardinality(found)],
                    !.code0 = nextCode,
                    !.tok0 = nextTok,
                    !.rerun = (sweep.pc = "done" /\ sweep.now = now)]
  /\ UNCHANGED <<now, ticks, active, codes, tokens, nextCode, nextTok, az,
                 treq, redeemed, rotated, vres, gate, rev,
                 regVars>>

sweepDeleteCode ==
  /\ sweep.pc = "deleteCode"
  /\ LET id == First(sweep.expiredCodes)
         rest == sweep.expiredCodes \ {id}
     IN /\ codes' = DeleteDoc(codes, id)
        /\ sweep' = [sweep EXCEPT
                       !.expiredCodes = rest,
                       !.pc = IF rest # {} THEN "deleteCode" ELSE "findTokens"]
  /\ UNCHANGED <<now, ticks, active, tokens, nextCode, nextTok, az,
                 treq, redeemed, rotated, vres, gate, rev,
                 regVars>>

\* The expired token records are queried, with the time captured at the start.
sweepFindTokens ==
  /\ sweep.pc = "findTokens"
  /\ LET found == ExpiredTokens(sweep.now)
     IN sweep' = [sweep EXCEPT
                    !.pc = IF found # {} THEN "deleteToken" ELSE "done",
                    !.expiredTokens = found,
                    !.result = [tokens |-> Cardinality(found),
                                codes |-> sweep.result.codes]]
  /\ UNCHANGED <<now, ticks, active, codes, tokens, nextCode, nextTok, az,
                 treq, redeemed, rotated, vres, gate, rev,
                 regVars>>

sweepDeleteToken ==
  /\ sweep.pc = "deleteToken"
  /\ LET id == First(sweep.expiredTokens)
         rest == sweep.expiredTokens \ {id}
     IN /\ tokens' = DeleteDoc(tokens, id)
        /\ sweep' = [sweep EXCEPT
                       !.expiredTokens = rest,
                       !.pc = IF rest # {} THEN "deleteToken" ELSE "done"]
  /\ UNCHANGED <<now, ticks, active, codes, nextCode, nextTok, az,
                 treq, redeemed, rotated, vres, gate, rev,
                 regVars>>

\* The caller has taken the counts.
sweepEnd ==
  /\ sweep.pc = "done"
  /\ sweep' = IdleSweep
  /\ UNCHANGED <<now, ticks, active, codes, tokens, nextCode, nextTok, az,
                 treq, redeemed, rotated, vres, gate, rev,
                 regVars>>

(* ------------------- service: revokeClientTokens ---------------------- *)
\* findMany({ clientId, revoked: false }) on mcp-oauth-token
FindNonRevoked_anyClient(clientId) ==
  {r.documentId : r \in {c \in tokens : c.revoked = FALSE}}
FindNonRevoked(clientId) ==
  {r.documentId :
     r \in {c \in tokens : c.clientId = clientId /\ c.revoked = FALSE}}

revokeClientTokens(clientId) ==
  /\ rev.pc = "idle"
  /\ LET found == FindNonRevoked(clientId)
     IN rev' = [IdleRev EXCEPT
                  !.pc = IF found # {} THEN "update" ELSE "done",
                  !.clientId = clientId,
                  !.found = found,
                  !.result = Cardinality(found),
                  !.tokens0 = tokens,
                  !.codes0 = codes]
  /\ UNCHANGED <<now, ticks, active, codes, tokens, nextCode, nextTok, az,
                 treq, redeemed, rotated, vres, gate, sweep,
                 regVars>>

\* update({ documentId, data: { revoked: true } })
revokeUpdate ==
  /\ rev.pc = "update"
  /\ LET id == First(rev.found)
         rest == rev.found \ {id}
     IN /\ tokens' = {IF t.documentId = id THEN [t EXCEPT !.revoked = TRUE]
                                           ELSE t : t \in tokens}
        /\ rev' = [rev EXCEPT !.found = rest,
                              !.pc = IF rest # {} THEN "update" ELSE "done"]
  /\ UNCHANGED <<now, ticks, active, codes, nextCode, nextTok, az,
                 treq, redeemed, rotated, vres, gate, sweep,
                 regVars>>

\* The caller has taken the count.
revokeEnd ==
  /\ rev.pc = "done"
  /\ rev' = IdleRev
  /\ UNCHANGED <<now, ticks, active, codes, tokens, nextCode, nextTok, az,
                 treq, redeemed, rotated, vres, gate, sweep,
                 regVars>>

(* ------------------------ mcpOauthMiddleware -------------------------- *)
\* MCP_ENDPOINT_PATTERN = /^\/api\/[^/]+\/mcp(\/.*)?$/
S_api == <<"/", "a", "p", "i", "/">>
S_mcp == <<"/", "m", "c", "p">>

isMcpEndpoint_registered(path) ==
  \E e \in endpoints :
     /\ e.active
     /\ \E k \in 0 .. (Len(path) - Len(e.path)) :
           SubSeq(path, k + 1, k + Len(e.path)) = e.path
isMcpEndpoint(path) ==
  /\ Len(path) >= 10
  /\ SubSeq(path, 1, 5) = S_api
  /\ \E k \in 6 .. (Len(path) - 4) :
        /\ \A m \in 6 .. k : path[m] # "/"
        /\ SubSeq(path, k + 1, k + 4) = S_mcp
        /\ (Len(path) = k + 4 \/ path[k + 5] = "/")

\* request paths
PathInputs ==
  { S_api \o <<"p">> \o S_mcp,                 \* /api/p/mcp
    S_api \o <<"p">> \o S_mcp \o <<"/", "x">>, \* /api/p/mcp/x
    S_api \o <<"p">> \o S_mcp \o <<"x">>,      \* /api/p/mcpx
    S_api \o <<"p", "/", "q">> \o S_mcp,       \* /api/p/q/mcp
    S_api \o S_mcp,                            \* /api//mcp
    <<"/", "x">> \o S_api \o <<"p">> \o S_mcp, \* /x/api/p/mcp
    <<"/", "x">> }                             \* /x

\* The text of a token value: randomBytes(32).toString('hex')
HexDigits == <<"1", "2", "3", "4", "5", "6", "7", "8", "9">>
Hex(n) == <<HexDigits[n]>>
\* The token value a text stands for; 0 when it is the text of none
TokenOf(text) ==
  IF \E n \in 1 .. Len(HexDigits) : Hex(n) = text
    THEN CHOOSE n \in 1 .. Len(HexDigits) : Hex(n) = text
    ELSE 0

S_Bearer == <<"B", "e", "a", "r", "e", "r", " ">>

\* authHeader?.startsWith('Bearer ') ? authHeader.slice(7) : null
\* (<< >> is null as well as the empty string: both fail `!token`)
extractBearerToken_anyScheme(authHeader) ==
  IF Len(authHeader) >= 7
    THEN SubSeq(authHeader, 8, Len(authHeader))
    ELSE << >>
extractBearerToken(authHeader) ==
  IF Len(authHeader) >= 7 /\ SubSeq(authHeader, 1, 7) = S_Bearer
    THEN SubSeq(authHeader, 8, Len(authHeader))
    ELSE << >>

\* Authorization headers of the requests (<< >>: no header)
AuthorizationInputs ==
  { << >>,
    S_Bearer,                                         \* no value
    S_Bearer \o <<"k", "A">>,                         \* a Strapi API token
    <<"b", "e", "a", "r", "e", "r", " ", "1">>,
    <<"B", "a", "s", "i", "c", " ", "x">> }
  \cup { S_Bearer \o Hex(n) : n \in 1 .. MaxTokens }

\* The headers and settings the base URL is built from
serverUrlConfig == << >>     \* strapi.config.get('server.url'), not set
ProxyInputs ==
  { [xfProto |-> "", xfHost |-> "", host |-> "o", protocol |-> "http"],
    [xfProto |-> "https", xfHost |-> "h", host |-> "o", protocol |-> "http"],
    [xfProto |-> "", xfHost |-> "", host |-> "", protocol |-> "http"] }

\* A text built by a template is the list of its pieces.
getBaseUrl(hd) ==
  LET forwardedProto == IF hd.xfProto # "" THEN hd.xfProto ELSE hd.protocol
      forwardedHost == IF hd.xfHost # "" THEN hd.xfHost ELSE hd.host
      serverUrl == IF serverUrlConfig # << >> THEN serverUrlConfig
                   ELSE <<"http://localhost:1337">>
  IN IF forwardedHost # "" THEN <<forwardedProto, "://", forwardedHost>>
     ELSE serverUrl

buildWwwAuthenticateHeader(hd) ==
  <<"Bearer resource_metadata=\"">> \o getBaseUrl(hd)
     \o <<"/api/", "PLUGIN_ID", "/.well-known/oauth-protected-resource", "\"">>

\* The middleware up to its first store call
mcpOauthMiddleware(path, authorization, hd) ==
  /\ gate.pc = "idle"
  /\ LET g == [IdleGate EXCEPT !.path = path,
                               !.authorization = authorization]
         token_ == extractBearerToken(authorization)
     IN gate' =
        IF ~isMcpEndpoint(path) THEN [g EXCEPT !.pc = "done", !.next = TRUE]
        ELSE IF token_ = << >>
          THEN [g EXCEPT !.pc = "done", !.status = 401,
                         !.wwwAuthenticate = buildWwwAuthenticateHeader(hd)]
        ELSE [g EXCEPT !.pc = "validate", !.token = token_]
  /\ UNCHANGED <<now, ticks, active, codes, tokens, nextCode, nextTok, az,
                 treq, redeemed, rotated, vres, sweep, rev,
                 regVars>>

\* validateOAuthToken and what follows it.  The two store reads of
\* validateOAuthToken are taken together: the second reads only the client
\* record, of which no field it uses is ever written.
Admit_bearer(g, oauthResult) ==
  [g EXCEPT !.pc = "done", !.next = TRUE,
            !.strapiToken = g.token, !.authMethod = "api-token"]
Admit_reject(g, oauthResult) ==
  IF oauthResult.valid /\ oauthResult.strapiApiToken # << >>
    THEN [g EXCEPT !.pc = "done", !.next = TRUE,
                   !.strapiToken = oauthResult.strapiApiToken,
                   !.authMethod = "oauth"]
    ELSE [g EXCEPT !.pc = "done", !.status = 401]
Admit(g, oauthResult) ==
  IF oauthResult.valid /\ oauthResult.strapiApiToken # << >>
    THEN [g EXCEPT !.pc = "done", !.next = TRUE,
                   !.strapiToken = oauthResult.strapiApiToken,
                   !.authMethod = "oauth"]
    ELSE [g EXCEPT !.pc = "done", !.next = TRUE,
                   !.strapiToken = g.token, !.authMethod = "api-token"]

gateValidate ==
  /\ gate.pc = "validate"
  /\ gate' = Admit(gate, validateOAuthToken(TokenOf(gate.token)))
  /\ UNCHANGED <<now, ticks, active, codes, tokens, nextCode, nextTok, az,
                 treq, redeemed, rotated, vres, sweep, rev,
                 regVars>>

\* The request has left the middleware
gateEnd ==
  /\ gate.pc = "done"
  /\ gate' = IdleGate
  /\ UNCHANGED <<now, ticks, active, codes, tokens, nextCode, nextTok, az,
                 treq, redeemed, rotated, vres, sweep, rev,
                 regVars>>

(* ------------------------ service: endpoint --------------------------- *)
\* The registrations plugins make: one on the path convention of the
\* middleware, one off it.
EndpointInputs ==
  { [path |-> S_api \o <<"p">> \o S_mcp, pluginId |-> "p"],
    [path |-> <<"/", "x">>, pluginId |-> "q"] }

\* findFirst({ path }) on mcp-endpoint: the documentId, 0 when there is none
FindEndpoint(path) ==
  IF \E e \in endpoints : e.path = path
    THEN (CHOOSE e \in endpoints : e.path = path).documentId
    ELSE 0

\* register(endpoint) up to and including findFirst
register(endpoint) ==
  /\ ereq.pc = "idle"
  /\ ereq' = [pc |-> "write", op |-> "register", path |-> endpoint.path,
              pluginId |-> endpoint.pluginId,
              existing |-> FindEndpoint(endpoint.path)]
  /\ UNCHANGED <<now, ticks, active, codes, tokens, nextCode, nextTok, az,
                 treq, redeemed, rotated, vres, gate, sweep, rev, endpoints,
                 mres>>

\* update() of the record found, or create() of a new one, active in both
\* cases
registerWrite ==
  /\ ereq.pc = "write"
  /\ ereq.op = "register"
  /\ endpoints' =
       IF ereq.existing # 0
         THEN {IF e.documentId = ereq.existing
                 THEN [e EXCEPT !.pluginId = ereq.pluginId, !.active = TRUE]
                 ELSE e : e \in endpoints}
         ELSE endpoints \cup
                {[documentId |-> Cardinality(endpoints) + 1,
                  path |-> ereq.path, pluginId |-> ereq.pluginId,
                  active |-> TRUE]}
  /\ ereq' = IdleEreq
  /\ UNCHANGED <<now, ticks, active, codes, tokens, nextCode, nextTok, az,
                 treq, redeemed, rotated, vres, gate, sweep, rev, mres>>

\* unregister(path) up to and including findFirst; it returns false when
\* there is no record
unregister(path) ==
  /\ ereq.pc = "idle"
  /\ ereq' = IF FindEndpoint(path) = 0
               THEN IdleEreq
               ELSE [pc |-> "write", op |-> "unregister", path |-> path,
                     pluginId |-> "", existing |-> FindEndpoint(path)]
  /\ UNCHANGED <<now, ticks, active, codes, tokens, nextCode, nextTok, az,
                 treq, redeemed, rotated, vres, gate, sweep, rev, endpoints,
                 mres>>

\* update({ active: false }) of the record found
unregisterWrite ==
  /\ ereq.pc = "write"
  /\ ereq.op = "unregister"
  /\ endpoints' = {IF e.documentId = ereq.existing
                     THEN [e EXCEPT !.active = FALSE]
                     ELSE e : e \in endpoints}
  /\ ereq' = IdleEreq
  /\ UNCHANGED <<now, ticks, active, codes, tokens, nextCode, nextTok, az,
                 treq, redeemed, rotated, vres, gate, sweep, rev, mres>>

\* path.includes(sub)
Includes(path, sub) ==
  \E k \in 0 .. (Len(path) - Len(sub)) :
     SubSeq(path, k + 1, k + Len(sub)) = sub

\* isProtected(path): getAll(true), then some endpoint's path is part of path
isProtected(path) ==
  \E e \in endpoints : e.active /\ Includes(path, e.path)

(* ------------------------------- Next --------------------------------- *)
\* Some request has not been answered yet, or its response is being sent
InFlight ==
  \/ az.pc # "idle"
  \/ \E p \in Reqs : treq[p].pc # "idle"
  \/ gate.pc # "idle"

\* The steps handlers take after their first one, while fewer than cap token
\* records have been created
Continue(cap) ==
  \/ authorizeCreate
  \/ authorizeEnd
  \/ \E p \in Reqs : tokenEnd(p)
  \/ \E p \in Reqs : acFindCode(p)
  \/ \E p \in Reqs : acMarkUsed(p)
  \/ \E p \in Reqs : nextTok < cap /\ acCreateToken(p)
  \/ \E p \in Reqs : rtFindToken(p)
  \/ \E p \in Reqs : rtRevoke(p)
  \/ \E p \in Reqs : nextTok < cap /\ rtCreateNew(p)

\* Token requests of registered clients presenting their credentials
GoodCreds == { <<"A", <<"sA">> >>, <<"B", << >> >> }

TokenStartGood(p) ==
  \E cr \in GoodCreds :
     \/ \E code \in 1 .. MaxCodes, u \in {U_xa, U_xb} :
           token(p, "authorization_code", code, u, cr[1], cr[2], 0, << >>)
     \/ \E rt \in 1 .. MaxTokens :
           token(p, "refresh_token", 0, << >>, cr[1], cr[2], rt, << >>)

\* Token requests with any parameters: every grant with the credentials that
\* pass client authentication, every kind of credentials with one grant.
PassingCreds == { <<"A", <<"sA">>, << >> >>, <<"A", << >>, << >> >>,
                  <<"B", << >>, << >> >> }

TokenStart(p) ==
  \/ \E cr \in PassingCreds :
        \/ \E code \in 0 .. MaxCodes, u \in TokenRedirectInputs :
              token(p, "authorization_code", code, u, cr[1], cr[2], 0, cr[3])
        \/ \E rt \in 0 .. MaxTokens :
              token(p, "refresh_token", 0, << >>, cr[1], cr[2], rt, cr[3])
        \/ token(p, "password", 0, << >>, cr[1], cr[2], 0, cr[3])
  \/ \E cr \in CredInputs :
        token(p, "authorization_code", 1, U_xa, cr[1], cr[2], 0, cr[3])

\* Authorize requests that pass every check, while codes are left to issue
AuthorizeStart ==
  /\ nextCode < MaxCodes
  /\ \E i \in {<<"A", U_xa>>, <<"B", U_xb>>} :
        authorize(i[1], i[2], "code", "")

\* The requests of one client that issue codes and token records
IssuanceStart ==
  \/ nextCode < MaxCodes /\ authorize("A", U_xa, "code", "")
  \/ \E p \in Reqs, code \in 1 .. MaxCodes :
        token(p, "authorization_code", code, U_xa, "A", <<"sA">>, 0, << >>)
  \/ \E p \in Reqs, rt \in 1 .. MaxTokens :
        token(p, "refresh_token", 0, << >>, "A", <<"sA">>, rt, << >>)

\* Requests are handled concurrently: their store calls interleave.  Every
\* further request in flight may create one more token record.
Next ==
  \/ Tick
  \/ AuthorizeStart
  \/ \E p \in Reqs : TokenStartGood(p)
  \/ Continue(MaxTokens + NumReqs - 1)

Spec == Init /\ [][Next]_vars

\* Requests are handled one after another, with any parameters.
SeqNext ==
  \/ Tick
  \/ ~InFlight /\ AuthorizeStart
  \/ ~InFlight /\ \E p \in Reqs : TokenStart(p)
  \/ Continue(MaxTokens)

SpecSeq == Init /\ [][SeqNext]_vars

\* Token lifecycles of a client, one request after another, and calls of
\* validateToken at any moment.
ValidateNext ==
  \/ Tick
  \/ ~InFlight /\ IssuanceStart
  \/ Continue(MaxTokens)
  \/ \E tok \in 0 .. MaxTokens : validateTokenCall(tok)

SpecValidate == Init /\ [][ValidateNext]_vars

\* Requests at the middleware: every header on a protected path, every way
\* of building the base URL for a request without a header, every path with
\* an access token.
GateStart ==
  LET P1 == S_api \o <<"p">> \o S_mcp
      hd0 == CHOOSE hd \in ProxyInputs : hd.xfHost = "" /\ hd.host # ""
  IN \/ \E h \in AuthorizationInputs : mcpOauthMiddleware(P1, h, hd0)
     \/ \E hd \in ProxyInputs : mcpOauthMiddleware(P1, << >>, hd)
     \/ \E p \in PathInputs : mcpOauthMiddleware(p, S_Bearer \o Hex(1), hd0)

\* Token lifecycles of registered clients, one request after another, and
\* requests to the protected endpoints in between.
GateNext ==
  \/ Tick
  \/ ~InFlight /\ AuthorizeStart
  \/ ~InFlight /\ \E p \in Reqs : TokenStartGood(p)
  \/ Continue(MaxTokens)
  \/ ~InFlight /\ GateStart
  \/ gateValidate
  \/ gateEnd

SpecGate == Init /\ [][GateNext]_vars

\* Token lifecycles of a client, one request after another, and requests
\* with an access token to a protected endpoint in between, while the
\* administrator activates and deactivates clients at any moment.
AdminNext ==
  \/ Tick
  \/ \E c \in {"A", "B"}, flag \in BOOLEAN : SetActive(c, flag)
  \/ ~InFlight /\ IssuanceStart
  \/ Continue(MaxTokens)
  \/ ~InFlight /\ \E n \in 1 .. MaxTokens :
        mcpOauthMiddleware(S_api \o <<"p">> \o S_mcp, S_Bearer \o Hex(n),
                           CHOOSE hd \in ProxyInputs : hd.xfHost # "")
  \/ gateValidate
  \/ gateEnd

SpecAdmin == Init /\ [][AdminNext]_vars

\* The steps of cleanupExpired after its first one
SweepContinue ==
  \/ sweepDeleteCode
  \/ sweepFindTokens
  \/ sweepDeleteToken
  \/ sweepEnd

\* Token lifecycles of a client, one request after another, while
\* cleanupExpired runs on its own schedule: its steps interleave with theirs.
SweepNext ==
  \/ Tick
  \/ ~InFlight /\ IssuanceStart
  \/ Continue(MaxTokens)
  \/ cleanupExpired
  \/ SweepContinue

SpecSweep == Init /\ [][SweepNext]_vars

\* The same, the clock standing still during a call of cleanupExpired and a
\* call beginning only after the one before it has returned its counts.
ExpiryNext ==
  \/ sweep.pc = "idle" /\ Tick
  \/ ~InFlight /\ IssuanceStart
  \/ Continue(MaxTokens)
  \/ sweep.pc = "idle" /\ cleanupExpired
  \/ SweepContinue

SpecExpiry == Init /\ [][ExpiryNext]_vars

\* A call of the service is in progress
Busy == sweep.pc # "idle" \/ rev.pc # "idle"

\* Token lifecycles of registered clients and calls of the service, one after
\* another.
ServiceNext ==
  \/ Tick
  \/ ~InFlight /\ ~Busy /\ AuthorizeStart
  \/ ~InFlight /\ ~Busy /\ \E p \in Reqs : TokenStartGood(p)
  \/ Continue(MaxTokens)
  \/ ~InFlight /\ rev.pc = "idle" /\ cleanupExpired
  \/ SweepContinue
  \/ ~InFlight /\ ~Busy /\ \E c \in {"A", "B", "Z"} : revokeClientTokens(c)
  \/ revokeUpdate
  \/ revokeEnd

SpecService == Init /\ [][ServiceNext]_vars

\* Token lifecycles of a client and requests with an access token to a
\* protected endpoint, one request after another, while revokeClientTokens
\* runs at any moment; no request begins during a call of it.
RevokeNext ==
  \/ Tick
  \/ ~InFlight /\ rev.pc = "idle" /\ IssuanceStart
  \/ Continue(MaxTokens)
  \/ \E c \in {"A", "B"} : revokeClientTokens(c)
  \/ revokeUpdate
  \/ revokeEnd
  \/ ~InFlight /\ rev.pc = "idle" /\ \E n \in 1 .. MaxTokens :
        mcpOauthMiddleware(S_api \o <<"p">> \o S_mcp, S_Bearer \o Hex(n),
                           CHOOSE hd \in ProxyInputs : hd.xfHost # "")
  \/ gateValidate
  \/ gateEnd

SpecRevoke == Init /\ [][RevokeNext]_vars

\* Plugins register and unregister endpoints while requests pass through the
\* middleware.
EndpointNext ==
  \/ \E endpoint \in EndpointInputs : register(endpoint)
  \/ registerWrite
  \/ \E endpoint \in EndpointInputs : unregister(endpoint.path)
  \/ unregisterWrite
  \/ \E path \in PathInputs, authorization \in AuthorizationInputs,
        hd \in ProxyInputs :
        mcpOauthMiddleware(path, authorization, hd)
  \/ gateValidate
  \/ gateEnd

SpecEndpoint == Init /\ [][EndpointNext]_vars

\* Authorize requests of any kind, one after another, while the
\* administrator switches client A off and on.
ResponseTypeInputs == {"", "code", "token"}
StateInputs == {"", "st"}

AuthorizeAny ==
  /\ nextCode < MaxCodes
  /\ \E client_id \in ClientIdInputs, redirect_uri \in RedirectInputs,
        response_type \in ResponseTypeInputs, state \in StateInputs :
        authorize(client_id, redirect_uri, response_type, state)

AuthorizeNext ==
  \/ Tick
  \/ \E flag \in BOOLEAN : SetActive("A", flag)
  \/ AuthorizeAny
  \/ authorizeCreate
  \/ authorizeEnd

SpecAuthorize == Init /\ [][AuthorizeNext]_vars

\* matchRedirectUri on its own: every candidate of at most MaxLen characters
\* against every list of at most two patterns of at most MaxLen characters
\* (the second one shorter), over a letter, a metacharacter of regular
\* expressions, the separator and the wildcard.
MatchChars == {"a", ".", "/", "*"}

StringsUpTo(n) == UNION {[1 .. k -> MatchChars] : k \in 0 .. n}

PatternLists ==
  {<< >>} \cup {<<p>> : p \in StringsUpTo(MaxLen)}
          \cup {<<p, q>> : p \in StringsUpTo(MaxLen),
                            q \in StringsUpTo(MaxLen - 1)}

InitMatch ==
  /\ InitStore
  /\ mres \in {[NoMatch EXCEPT !.redirectUri = s, !.allowedPatterns = ps] :
                  s \in StringsUpTo(MaxLen), ps \in PatternLists}

MatchNext == matchRedirectUriCall

SpecMatch == InitMatch /\ [][MatchNext]_vars

(* ======================= properties of the model ====================== *)
Done(p) == treq[p].pc = "done"
Ok(p) == Done(p) /\ treq[p].status = 200
InvalidGrant(p) ==
  Done(p) /\ treq[p].status = 400 /\ treq[p].error = "invalid_grant"
        /\ treq[p].issued = 0
\* Request p takes its step from position pos
Steps(p, pos) == treq[p].pc = pos /\ treq'[p].pc # pos
\* ... and the step ends the request with invalid_grant and writes nothing
EndsInvalidGrant(p) ==
  /\ treq'[p].pc = "done"
  /\ treq'[p].status = 400
  /\ treq'[p].error = "invalid_grant"
  /\ treq'[p].issued = 0
  /\ codes' = codes
  /\ tokens' = tokens

\* C1: of the token requests that redeem the same code value as the same
\* client with the same redirect_uri, none of which started after another was
\* answered, exactly one is answered a token pair and every other one
\* invalid_grant.
C1_ExactlyOneRedemption ==
  \A p, q \in Reqs :
     ( /\ p # q
       /\ treq[p].grant_type = "authorization_code"
       /\ treq[q].grant_type = "authorization_code"
       /\ treq[p].code = treq[q].code
       /\ treq[p].client = treq[q].client
       /\ treq[p].redirect_uri = treq[q].redirect_uri
       /\ ~treq[p].late /\ ~treq[q].late
       /\ Ok(p) /\ Done(q) )
     => InvalidGrant(q)

\* C2: of the token requests that rotate the same refresh token as the same
\* client, none of which started after another was answered, exactly one is
\* answered a new token pair and every other one invalid_grant.
C2_ExactlyOneRotation ==
  \A p, q \in Reqs :
     ( /\ p # q
       /\ treq[p].grant_type = "refresh_token"
       /\ treq[q].grant_type = "refresh_token"
       /\ treq[p].refresh_token = treq[q].refresh_token
       /\ treq[p].client = treq[q].client
       /\ ~treq[p].late /\ ~treq[q].late
       /\ Ok(p) /\ Done(q) )
     => InvalidGrant(q)

\* C3: an authenticated authorization_code request that starts after a
\* request was answered a token pair for the same code value never gets past
\* the code lookup: it ends with 400 invalid_grant and creates no token record.
C3_ReplayedCodeFails ==
  \A p \in Reqs :
     (treq[p].grant_type = "authorization_code" /\ treq[p].late
        /\ treq[p].client # "")
     => /\ treq[p].pc \in {"findCode", "done"}
        /\ Done(p) => InvalidGrant(p)

C3_Witness ==
  \E p \in Reqs :
     /\ treq[p].grant_type = "authorization_code" /\ treq[p].late
     /\ InvalidGrant(p)
     /\ \E c \in codes : /\ c.code = treq[p].code /\ c.used
                         /\ c.clientId = treq[p].client
                         /\ c.redirectUri = treq[p].redirect_uri
                         /\ ~CodeExpired(c)

\* C4: an authenticated refresh_token request that starts after a request was
\* answered a new pair for the same refresh token value never gets past the
\* token lookup: it ends with 400 invalid_grant and creates no token record.
C4_ReplayedRefreshFails ==
  \A p \in Reqs :
     (treq[p].grant_type = "refresh_token" /\ treq[p].late
        /\ treq[p].client # "")
     => /\ treq[p].pc \in {"findToken", "done"}
        /\ Done(p) => InvalidGrant(p)

C4_Witness ==
  \E p \in Reqs :
     /\ treq[p].grant_type = "refresh_token" /\ treq[p].late
     /\ InvalidGrant(p)
     /\ \E t \in tokens : /\ t.refreshToken = treq[p].refresh_token
                          /\ t.revoked
                          /\ t.clientId = treq[p].client
                          /\ ~RefreshExpired(t)

\* C5: two different token records of the same refresh cycle are never both
\* live (non-revoked and access expiry not passed).
Live(t) == ~t.revoked /\ ~(t.expiresAt < now)

C5_OneLivePerCycle ==
  \A t1, t2 \in tokens :
     (t1.cycle = t2.cycle /\ Live(t1) /\ Live(t2)) => t1 = t2

\* C6: the code lookup of a request presenting a code whose expiry has passed
\* ends the request with invalid_grant, creates no token record and leaves
\* the code collection as it is.
C6_ExpiredCodeFails ==
  [][ \A p \in Reqs :
        ( /\ Steps(p, "findCode")
          /\ \E c \in codes : c.code = treq[p].code /\ c.expiresAt < now )
        => EndsInvalidGrant(p) ]_vars

C6_Witness ==
  \E p \in Reqs :
     /\ treq[p].grant_type = "authorization_code"
     /\ InvalidGrant(p)
     /\ \E c \in codes : /\ c.code = treq[p].code /\ ~c.used
                         /\ c.clientId = treq[p].client
                         /\ c.redirectUri = treq[p].redirect_uri
                         /\ c.expiresAt < now

\* C7: the code lookup of a request authenticated as a client other than the
\* one the code was issued to ends the request with invalid_grant, creates no
\* token record and leaves the code as it is (unused if it was unused).
C7_OtherClientFails ==
  [][ \A p \in Reqs :
        ( /\ Steps(p, "findCode")
          /\ \E c \in codes : c.code = treq[p].code
                              /\ c.clientId # treq[p].client )
        => EndsInvalidGrant(p) ]_vars

C7_Witness ==
  \E p \in Reqs :
     /\ treq[p].grant_type = "authorization_code"
     /\ InvalidGrant(p)
     /\ \E c \in codes : /\ c.code = treq[p].code /\ ~c.used
                         /\ c.clientId # treq[p].client
                         /\ c.redirectUri = treq[p].redirect_uri
                         /\ ~CodeExpired(c)

\* C8: the code lookup of a request whose redirect_uri (absent or present)
\* differs from the one stored with the code ends the request with
\* invalid_grant, creates no token record and leaves the code as it is.
C8_RedirectMismatchFails ==
  [][ \A p \in Reqs :
        ( /\ Steps(p, "findCode")
          /\ \E c \in codes : c.code = treq[p].code
                              /\ c.redirectUri # treq[p].redirect_uri )
        => EndsInvalidGrant(p) ]_vars

C8_Witness ==
  \E p \in Reqs :
     /\ treq[p].grant_type = "authorization_code"
     /\ InvalidGrant(p)
     /\ treq[p].redirect_uri = << >>
     /\ \E c \in codes : /\ c.code = treq[p].code /\ ~c.used
                         /\ c.clientId = treq[p].client
                         /\ ~CodeExpired(c)

\* C9: for every access token value, validation (by the service and by the
\* middleware) reports invalid when no non-revoked record holds the value or
\* the access expiry of that record has passed, and otherwise reports valid,
\* the service with the client identifier of the record; the refresh expiry
\* plays no part.
C9_ValidateAccess ==
  \A tok \in 0 .. MaxTokens :
     LET held == {r \in tokens : r.accessToken = tok /\ ~r.revoked}
         res == validateToken(tok)
     IN IF held = {} \/ (\E r \in held : r.expiresAt < now)
          THEN ~res.valid /\ ~validateOAuthToken(tok).valid
          ELSE /\ res.valid
               /\ validateOAuthToken(tok).valid
               /\ \A r \in held : res.clientId = r.clientId

C9_Witness ==
  /\ ~vres.valid
  /\ vres.error = "Token expired"
  /\ \E t \in tokens : /\ t.accessToken = vres.token
                       /\ ~t.revoked
                       /\ t.expiresAt < now
                       /\ ~RefreshExpired(t)

\* C10: no token request that supplied no client secret for a client with a
\* registered secret is answered a token pair.
C10_SecretStillChecked ==
  \A p \in Reqs :
     ~( /\ Ok(p)
        /\ treq[p].noSecret
        /\ ClientRecord(treq[p].client).clientSecret # << >> )

\* C11: a token request is authenticated exactly when it supplies a client
\* identifier (body, else the header's text before its first colon), an active
\* client has that identifier, and it supplies no secret or the supplied
\* secret (body, else the header's text after its first colon) equals the
\* stored one; every other request is answered 401 invalid_client, whatever
\* its grant_type, and its first step writes nothing to the store.
SuppliedId(r) ==
  IF r.client_id # "" THEN r.client_id
  ELSE IF r.basic # << >> THEN r.basic[1] ELSE ""
SuppliedSecret(r) ==
  IF r.client_secret # << >> THEN r.client_secret
  ELSE IF r.basic = << >> \/ Tail(r.basic) = <<"">> THEN << >>
  ELSE Tail(r.basic)
ShouldAuthenticate(r) ==
  /\ SuppliedId(r) \in ClientIds
  /\ active[SuppliedId(r)]
  /\ \/ SuppliedSecret(r) = << >>
     \/ SuppliedSecret(r) = ClientRecord(SuppliedId(r)).clientSecret

C11_ClientAuthentication ==
  [][ \A p \in Reqs :
        Steps(p, "idle")
        => IF ShouldAuthenticate(treq'[p])
             THEN treq'[p].client = SuppliedId(treq'[p])
             ELSE /\ treq'[p].pc = "done"
                  /\ treq'[p].status = 401
                  /\ treq'[p].error = "invalid_client"
                  /\ treq'[p].issued = 0
                  /\ codes' = codes
                  /\ tokens' = tokens ]_vars

\* The value of an `Authorization: Bearer <value>` header; << >> when the
\* request carries none
BearerValue(h) ==
  IF Len(h) > 7 /\ SubSeq(h, 1, 7) = S_Bearer
    THEN SubSeq(h, 8, Len(h)) ELSE << >>
\* validateAccess accepts the text: a non-revoked token record holds it as
\* its access token and the access expiry of the record has not passed
AccessHolders(text) ==
  {r \in tokens : Hex(r.accessToken) = text /\ ~r.revoked
                  /\ ~(r.expiresAt < now)}
\* The middleware answers the request it was validating
GateAnswers == gate.pc = "validate" /\ gate'.pc = "done"

\* C12: a request to a protected path that carries a bearer value is never
\* answered 401; when validateAccess does not accept the value, the request
\* is passed on with the value itself as the upstream credential and the
\* auth-method marker "api-token".
C12_PassThrough ==
  [][ /\ ( /\ gate'.pc = "done"
           /\ isMcpEndpoint(gate'.path)
           /\ BearerValue(gate'.authorization) # << >> )
         => gate'.status # 401 /\ gate'.next
      /\ (GateAnswers /\ AccessHolders(gate.token) = {})
         => /\ gate'.next
            /\ gate'.status = 0
            /\ gate'.strapiToken = BearerValue(gate.authorization)
            /\ gate'.authMethod = "api-token" ]_vars

C12_Witness ==
  /\ gate.pc = "done"
  /\ gate.next
  /\ gate.authMethod = "api-token"
  /\ gate.strapiToken = BearerValue(gate.authorization)
  /\ \E r \in tokens : /\ Hex(r.accessToken) = gate.strapiToken
                       /\ ~r.revoked
                       /\ r.expiresAt < now

\* C13: when validateAccess accepts the bearer value of a request to a
\* protected path, the request is passed on with the upstream credential of
\* the client that owns the token (not the bearer value) and the auth-method
\* marker "oauth".
C13_OAuthAdmit ==
  [][ (GateAnswers /\ AccessHolders(gate.token) # {})
      => /\ gate'.next
         /\ gate'.status = 0
         /\ gate'.authMethod = "oauth"
         /\ gate'.strapiToken # gate.token
         /\ \A r \in AccessHolders(gate.token) :
               gate'.strapiToken = ClientRecord(r.clientId).strapiApiToken
    ]_vars

C13_Witness ==
  /\ gate.pc = "done"
  /\ gate.next
  /\ gate.authMethod = "oauth"
  /\ \E r \in AccessHolders(BearerValue(gate.authorization)) :
        gate.strapiToken = ClientRecord(r.clientId).strapiApiToken

\* C14: a request to a protected path that carries no bearer value is
\* answered 401 without being passed on and without a credential; every 401
\* of the middleware carries the header
\* WWW-Authenticate: Bearer resource_metadata="<base URL><discovery path>".
DiscoveryHeader(w) ==
  /\ Len(w) >= 5
  /\ w[1] = "Bearer resource_metadata=\""
  /\ w[Len(w)] = "\""
  /\ w[Len(w) - 1] = "/.well-known/oauth-protected-resource"
  /\ \A k \in 2 .. (Len(w) - 1) : w[k] # "" /\ w[k] # "\""

C14_NoBearerRejected ==
  gate.pc = "done"
  => /\ (isMcpEndpoint(gate.path) /\ BearerValue(gate.authorization) = << >>)
        => /\ gate.status = 401
           /\ ~gate.next
           /\ gate.strapiToken = << >>
           /\ gate.authMethod = ""
     /\ gate.status = 401 => DiscoveryHeader(gate.wwwAuthenticate)

C14_Witness ==
  /\ gate.pc = "done"
  /\ isMcpEndpoint(gate.path)
  /\ gate.authorization = << >>
  /\ gate.status = 401
  /\ ~gate.next
  /\ gate.wwwAuthenticate = buildWwwAuthenticateHeader(
        [xfProto |-> "https", xfHost |-> "h", host |-> "o",
         protocol |-> "http"])

\* C15 (as stated): while a client stays inactive, no authorization code and
\* no token record bound to it is added to the store.
NewCodesOf(c) ==
  {r \in codes' : r.clientId = c
                  /\ \A q \in codes : q.documentId # r.documentId}
NewTokensOf(c) ==
  {r \in tokens' : r.clientId = c
                   /\ \A q \in tokens : q.documentId # r.documentId}

C15_NoIssuanceWhileInactive ==
  [][ \A c \in ClientIds :
        (~active[c] /\ ~active'[c])
        => NewCodesOf(c) = {} /\ NewTokensOf(c) = {} ]_vars

\* C15 (amended): an authorize request or a token request (either grant type)
\* whose client lookup takes place while the client is inactive ends there
\* with invalid_client and writes nothing to the store.
C15_InactiveClientRefused ==
  [][ /\ \A p \in Reqs :
           ( /\ Steps(p, "idle")
             /\ SuppliedId(treq'[p]) \in ClientIds
             /\ ~active[SuppliedId(treq'[p])] )
           => /\ treq'[p].pc = "done"
              /\ treq'[p].status = 401
              /\ treq'[p].error = "invalid_client"
              /\ treq'[p].issued = 0
              /\ codes' = codes
              /\ tokens' = tokens
      /\ ( /\ az.pc = "idle" /\ az'.pc # "idle"
           /\ az'.client_id \in ClientIds
           /\ ~active[az'.client_id] )
         => /\ az'.pc = "done"
            /\ az'.status = 400
            /\ az'.error = "invalid_client"
            /\ codes' = codes
            /\ tokens' = tokens ]_vars

C15_Witness ==
  \E p \in Reqs :
     /\ Done(p)
     /\ treq[p].grant_type = "refresh_token"
     /\ treq[p].status = 401
     /\ treq[p].error = "invalid_client"
     /\ ~active[treq[p].client_id]
     /\ \E t \in tokens : /\ t.refreshToken = treq[p].refresh_token
                          /\ t.clientId = treq[p].client_id
                          /\ ~t.revoked
                          /\ ~RefreshExpired(t)

\* C16 (as stated): between two store states that differ only in the active
\* flag of clients, every token record gives the same result when its access
\* token is validated at the middleware and when its refresh token is rotated
\* by its owner.
GateOutcome(t) ==
  LET g == Admit([IdleGate EXCEPT !.token = Hex(t.accessToken)],
                 validateOAuthToken(t.accessToken))
  IN <<g.status, g.next, g.strapiToken, g.authMethod>>
RotateOutcome(t) ==
  refreshOutcome(t.refreshToken, t.clientId,
                 ClientRecord(t.clientId).clientSecret)
OnlyFlagsDiffer ==
  /\ active' # active
  /\ codes' = codes
  /\ tokens' = tokens
  /\ now' = now

C16_FlagIndependent ==
  [][ OnlyFlagsDiffer
      => \A t \in tokens :
            /\ GateOutcome(t)' = GateOutcome(t)
            /\ RotateOutcome(t)' = RotateOutcome(t) ]_vars

\* C16 (amended): between two such states the validation of the access token
\* at the middleware gives the same result; the rotation of the refresh token
\* gives the same result when the owner's flag is the same in both, and ends
\* with invalid_client whenever the owner is inactive.
C16_GateFlagIndependent ==
  [][ OnlyFlagsDiffer
      => \A t \in tokens :
            /\ GateOutcome(t)' = GateOutcome(t)
            /\ active'[t.clientId] = active[t.clientId]
               => RotateOutcome(t)' = RotateOutcome(t)
            /\ ~active'[t.clientId]
               => RotateOutcome(t)' = "invalid_client" ]_vars

C16_Witness ==
  /\ gate.pc = "done"
  /\ gate.authMethod = "oauth"
  /\ \E t \in tokens :
        /\ Hex(t.accessToken) = BearerValue(gate.authorization)
        /\ ~active[t.clientId]
        /\ gate.strapiToken = ClientRecord(t.clientId).strapiApiToken
        /\ ~t.revoked /\ ~RefreshExpired(t)
        /\ RotateOutcome(t) = "invalid_client"

\* The codes and token records a step removes from the store
RemovedCodes == {r \in codes : \A q \in codes' : q.documentId # r.documentId}
RemovedTokens ==
  {r \in tokens : \A q \in tokens' : q.documentId # r.documentId}

\* C17: every code removed from the store is removed by a call of
\* cleanupExpired and its expiry is before the time that call began; every
\* token record removed is removed by such a call and its refresh expiry is
\* before that time, so a record whose refresh expiry has not passed stays,
\* also when its access expiry has passed.
C17_SweepOnlyExpired ==
  [][ /\ \A r \in RemovedCodes :
           sweep.pc = "deleteCode" /\ r.expiresAt < sweep.now
      /\ \A r \in RemovedTokens :
           sweep.pc = "deleteToken" /\ r.refreshExpiresAt < sweep.now ]_vars

C17_Witness ==
  /\ sweep.pc = "done"
  /\ sweep.result.codes > 0
  /\ sweep.result.tokens = 0
  /\ \E t \in tokens : /\ t.expiresAt < sweep.now
                       /\ ~(t.refreshExpiresAt < sweep.now)

\* C18: a code or token record created after a call of cleanupExpired began
\* is not removed by that call, whatever the interleaving.
C18_SweepSparesNewRecords ==
  [][ /\ \A r \in RemovedCodes : r.documentId <= sweep.code0
      /\ \A r \in RemovedTokens : r.documentId <= sweep.tok0 ]_vars

C18_Witness ==
  /\ sweep.pc = "done"
  /\ sweep.result.codes > 0
  /\ \E t \in tokens : t.documentId > sweep.tok0 /\ t.expiresAt > sweep.now

\* C19: a call of cleanupExpired that begins right when the call before it
\* returned, at the same clock value, removes no record: none of its steps
\* changes the store, and it returns counts of zero.
C19_SweepIdempotent ==
  [][ (sweep'.rerun /\ sweep' # sweep)
      => /\ codes' = codes
         /\ tokens' = tokens
         /\ sweep'.expiredCodes = {}
         /\ sweep'.expiredTokens = {}
         /\ sweep'.result = [tokens |-> 0, codes |-> 0] ]_vars

C19_Witness ==
  /\ sweep.pc = "done"
  /\ sweep.rerun
  /\ sweep.now = now
  /\ sweep.result = [tokens |-> 0, codes |-> 0]
  /\ sweep.code0 > 0
  /\ codes = {}

\* C20: when a call of revokeClientTokens(c) returns, every token record of c
\* that was not revoked when it began is revoked, the count returned is the
\* number of those records, and every other token record and every code is
\* as it was.
C20_RevokeAllForClient ==
  rev.pc = "done"
  => /\ tokens = {IF t.clientId = rev.clientId
                    THEN [t EXCEPT !.revoked = TRUE] ELSE t :
                  t \in rev.tokens0}
     /\ rev.result = Cardinality({t \in rev.tokens0 :
                                    t.clientId = rev.clientId /\ ~t.revoked})
     /\ codes = rev.codes0

C20_Witness ==
  /\ rev.pc = "done"
  /\ rev.result > 0
  /\ codes # {}
  /\ \E t \in rev.tokens0 : t.clientId = rev.clientId /\ ~t.revoked
  /\ \A t \in tokens : t.clientId = rev.clientId => t.revoked

\* C21: an authorize request that ends in an error response has created no
\* code and changed nothing in the store.
C21_ErrorLeavesStore ==
  [][ (az.pc # "done" /\ az'.pc = "done" /\ az'.status # 302)
      => (codes' = codes /\ tokens' = tokens /\ nextCode' = nextCode) ]_vars

\* C22: a successful authorize request adds exactly one code record: unused,
\* expiring CODE_TTL after the time of issue, bound to the client and to the
\* redirect URI exactly as requested; the redirect goes to that URI and
\* carries the new code and the state that was supplied, if any.
C22_CodeIssued ==
  [][ (az.pc = "create" /\ az'.pc = "done" /\ az'.status = 302)
      => \E r \in codes' \ codes :
            /\ codes' = codes \cup {r}
            /\ \A q \in codes : q.code # r.code
            /\ r.used = FALSE
            /\ r.expiresAt = now + CODE_TTL
            /\ r.clientId = az.client_id
            /\ ActiveClientFound_anyFlag(r.clientId)
            /\ r.redirectUri = az.redirect_uri
            /\ az'.location.uri = az.redirect_uri
            /\ az'.location.code = r.code
            /\ az'.location.state = az.state ]_vars

C22_Witness ==
  /\ az.pc = "done"
  /\ az.status = 302
  /\ az.state = "st"
  /\ az.location.state = "st"
  /\ \E r \in codes : r.code = az.location.code /\ r.expiresAt = now + CODE_TTL

\* The error the checks of the authorization endpoint, taken in their order,
\* give for a request ("": the request passes them all).
FirstFailure(r) ==
  IF r.client_id = "" THEN "invalid_request"
  ELSE IF r.redirect_uri = << >> THEN "invalid_request"
  ELSE IF r.response_type # "code" THEN "unsupported_response_type"
  ELSE IF ~(r.client_id \in ClientIds /\ active[r.client_id])
    THEN "invalid_client"
  ELSE IF \A k \in 1 .. Len(allowedRedirects(ClientRecord(r.client_id))) :
            ~GlobFrom(allowedRedirects(ClientRecord(r.client_id))[k], 1,
                      r.redirect_uri, 1)
    THEN "invalid_request"
  ELSE ""

\* C25: the authorization endpoint answers 400 with the error of the first
\* check that fails, in the order client_id, redirect_uri, response_type,
\* client, redirect allow-list; a request that passes them all never ends in
\* an error.
C25_CheckOrder ==
  [][ /\ (az.pc = "idle" /\ az'.pc # "idle")
         => IF FirstFailure(az') # ""
              THEN /\ az'.pc = "done"
                   /\ az'.status = 400
                   /\ az'.error = FirstFailure(az')
              ELSE az'.pc = "create"
      /\ (az.pc = "create" /\ az'.pc = "done")
         => (az'.status = 302 /\ az'.error = "") ]_vars

HasWildcard(pattern) == \E i \in 1 .. Len(pattern) : pattern[i] = "*"

\* C23: against a list of patterns none of which contains *, a candidate
\* matches exactly when it is equal to one of the patterns, whatever
\* metacharacters of regular expressions the patterns contain.
C23_ExactWithoutWildcard ==
  ( /\ mres.called
    /\ \A k \in 1 .. Len(mres.allowedPatterns) :
          ~HasWildcard(mres.allowedPatterns[k]) )
  => ( mres.result <=>
         \E k \in 1 .. Len(mres.allowedPatterns) :
            mres.allowedPatterns[k] = mres.redirectUri )

C23_Witness ==
  /\ mres.called
  /\ mres.allowedPatterns = << <<"a", ".">>, <<".">> >>
  /\ mres.redirectUri = <<".">>
  /\ mres.result

\* The candidate is the pattern with each * replaced by a run of characters
\* other than "/", possibly empty.
RECURSIVE Expands(_, _)
Expands(pattern, candidate) ==
  IF pattern = << >> THEN candidate = << >>
  ELSE IF Head(pattern) = "*"
    THEN \E n \in 0 .. Len(candidate) :
            /\ \A m \in 1 .. n : candidate[m] # "/"
            /\ Expands(Tail(pattern), SubSeq(candidate, n + 1, Len(candidate)))
    ELSE /\ candidate # << >>
         /\ Head(candidate) = Head(pattern)
         /\ Expands(Tail(pattern), Tail(candidate))

\* C24: a candidate matches a list of patterns exactly when it is, for at
\* least one pattern of the list, that pattern with each * replaced by a
\* possibly empty run of characters without "/"; no candidate matches the
\* empty list.
C24_WildcardWithinSegment ==
  mres.called
  => ( mres.result <=>
         \E k \in 1 .. Len(mres.allowedPatterns) :
            Expands(mres.allowedPatterns[k], mres.redirectUri) )

C24_Witness ==
  /\ mres.called
  /\ mres.allowedPatterns = << <<"/", "*">>, <<"*">> >>
  /\ mres.redirectUri = <<".", "a">>
  /\ mres.result

\* The segments of a path: the runs of characters between its "/".
RECURSIVE Segments(_)
Segments(path) ==
  IF \A k \in 1 .. Len(path) : path[k] # "/" THEN <<path>>
  ELSE LET k == CHOOSE i \in 1 .. Len(path) :
                  path[i] = "/" /\ \A m \in 1 .. (i - 1) : path[m] # "/"
       IN <<SubSeq(path, 1, k - 1)>> \o Segments(SubSeq(path, k + 1, Len(path)))

\* The path convention /api/{one segment}/mcp, alone or followed by more
\* segments.
OnConvention(path) ==
  /\ Len(Segments(path)) >= 4
  /\ Segments(path)[1] = << >>
  /\ Segments(path)[2] = <<"a", "p", "i">>
  /\ Segments(path)[3] # << >>
  /\ Segments(path)[4] = <<"m", "c", "p">>

\* The middleware let the request through untouched.
Untouched(g) ==
  /\ g.pc = "done"
  /\ g.next
  /\ g.status = 0
  /\ g.authMethod = ""
  /\ g.strapiToken = << >>

RevokedByRotation(r, st) ==
  IF r.pc = "done" /\ r.status = 200 /\ r.grant_type = "refresh_token"
    THEN {t \in st : t.documentId = r.doc}
    ELSE {}

RevokedByCall(v, st) ==
  IF v.pc = "done"
    THEN {t \in st : \E t0 \in v.tokens0 :
                        /\ t0.documentId = t.documentId
                        /\ t0.clientId = v.clientId
                        /\ ~t0.revoked}
    ELSE {}

\* C27: a record revoked by a rotation that succeeded or by a completed
\* revokeClientTokens is revoked for good, and a request that presents the
\* access token of a revoked record at the middleware afterwards is not
\* marked "oauth" and does not get the client's Strapi API token.
C27_RevokedNeverAccepted ==
  [][ /\ \A p \in Reqs : \A t \in RevokedByRotation(treq'[p], tokens') : t.revoked
      /\ \A t \in RevokedByCall(rev', tokens') : t.revoked
      /\ \A t \in tokens : t.revoked =>
            \A q \in tokens' : q.documentId = t.documentId => q.revoked
      /\ \A t \in tokens :
            ( /\ t.revoked
              /\ gate.pc = "validate"
              /\ gate'.pc = "done"
              /\ gate.token = Hex(t.accessToken) )
            => /\ gate'.authMethod # "oauth"
               /\ gate'.strapiToken # ClientRecord(t.clientId).strapiApiToken
    ]_vars

C27_Witness ==
  /\ gate.pc = "done"
  /\ gate.authMethod = "api-token"
  /\ \E t \in tokens :
        /\ t.revoked
        /\ gate.token = Hex(t.accessToken)
        /\ ~AccessExpired(t)
  /\ \E t \in tokens : ~t.revoked

\* C28: when revokeClientTokens(c) has completed and the token request of
\* client c that was in flight when it began has finished, no token record
\* of c is left that is not revoked.
C28_RevokeAllConcurrent ==
  ( /\ rev.pc = "done"
    /\ \A p \in Reqs : treq[p].pc \in {"idle", "done"} )
  => \A t \in tokens : t.clientId = rev.clientId => t.revoked

\* The token records a step adds to the store
CreatedTokens ==
  {r \in tokens' : \A q \in tokens : q.documentId # r.documentId}

\* C29: every token record is created not revoked, with its access expiry
\* expiresIn and its refresh expiry refreshExpiresIn after the time of issue,
\* the first strictly before the second; and cleanupExpired never removes a
\* record whose access token validateToken still accepts.
C29_ExpiryOrder ==
  [][ /\ \A r \in CreatedTokens :
           /\ r.revoked = FALSE
           /\ r.expiresAt = now + expiresIn
           /\ r.refreshExpiresAt = now + refreshExpiresIn
           /\ r.expiresAt < r.refreshExpiresAt
      /\ \A r \in RemovedTokens : ~validateToken(r.accessToken).valid ]_vars

C29_Witness ==
  /\ sweep.pc = "done"
  /\ sweep.result.tokens > 0
  /\ \E t \in tokens : /\ ~t.revoked
                       /\ t.expiresAt < t.refreshExpiresAt
                       /\ validateToken(t.accessToken).valid

\* C30: in every state of the store and for every token value, the service's
\* validateToken and the middleware's validateOAuthToken both accept or
\* both refuse, and when they accept they return the same Strapi API token.
C30_ValidatorsAgree ==
  \A tok \in 0 .. (MaxTokens + 1) :
     /\ validateToken(tok).valid = validateOAuthToken(tok).valid
     /\ validateToken(tok).valid
        => validateToken(tok).strapiApiToken
             = validateOAuthToken(tok).strapiApiToken

C30_Witness ==
  /\ vres.valid
  /\ validateOAuthToken(vres.token).valid
  /\ validateOAuthToken(vres.token).strapiApiToken = vres.strapiApiToken
  /\ \E t \in tokens : /\ AccessExpired(t)
                       /\ ~validateToken(t.accessToken).valid
                       /\ ~validateOAuthToken(t.accessToken).valid

====
